---- MODULE Spec2Model ----
(***************************************************************************)
(* A model of lpkg/main/scripts/gen_deps.py, the two-phase ELF dependency  *)
(* resolver of LankeOS: main() drives process_phase1 over every .lpkg      *)
(* archive of a directory with a thread pool, merges the returned          *)
(* (identifier, package) pairs into provider_map, then drives              *)
(* process_phase2 over every archive with a second pool.                   *)
(*                                                                         *)
(* Strings are tuples of one-character strings, so that the code's string  *)
(* operations (replace, rsplit, endswith, "in", sorted) are computed.      *)
(*                                                                         *)
(* The module also models lpkg/main/scripts/lrepo-mgr.py, the repository   *)
(* manager that pushes the finished archives: its file-name parser, its    *)
(* aggregated index.txt and its push, delete and cleanup commands.         *)
(***************************************************************************)
EXTENDS Naturals, Sequences, FiniteSets, TLC

VARIABLES
    is_dir,        \* os.path.isdir(target_dir)
    target_dir,    \* file name -> archive stored under that name in the directory
    lpkg_files,    \* main's list of the names in target_dir that end in ".lpkg"
    orig,          \* history: target_dir as it was when the first run started
    working_dir,   \* TRUE while the mkdtemp directory of this run exists
    extract,       \* lpkg -> the directory extract_root/lpkg
    temp_deps,     \* lpkg -> the file working_dir/deps_gen_<lpkg>.txt
    repacked,      \* lpkg -> the file target_dir/<lpkg>.repacked
    provider_map,  \* main's dict: library identifier -> package name
    main_pc,       \* where main is
    fut1,          \* lpkg -> state of its process_phase1 future
    result1,       \* lpkg -> local_providers returned by process_phase1
    yielded1,      \* futures the Phase 1 as_completed loop has handled
    fut2,          \* lpkg -> state of its process_phase2 future
    final_deps,    \* lpkg -> final_deps of its process_phase2 call
    resolved,      \* history: lpkg -> the (n, dep_pkg) lookups of its Phase 2 scan
    yielded2,      \* futures the Phase 2 as_completed loop has handled
    tar_failures,  \* how many archive creations have stopped part-way so far
    run,           \* history: 1 in the first run of main, 2 in a second run
    first_deps,    \* history: lpkg -> deps.txt in its archive when run 1 ended
    storage_type,  \* lrepo-mgr.py: config["storage"]["type"]
    index_txt,     \* lrepo-mgr.py: the remote file <prefix><arch>/index.txt
    remote,        \* lrepo-mgr.py: the remote files <prefix><arch>/<dir>/<file>, as pairs
    download_failures, \* lrepo-mgr.py: downloads of an existing index.txt that failed
    last_op,       \* history: the last command of lrepo-mgr.py that ran
    last_files     \* history: the files the last push_packages call went through

\* the state of gen_deps.py
gen_vars == <<is_dir, target_dir, lpkg_files, orig, working_dir, extract, temp_deps, repacked,
              provider_map, main_pc, fut1, result1, yielded1, fut2, final_deps,
              resolved, yielded2, tar_failures, run, first_deps>>

\* the state of lrepo-mgr.py
repo_vars == <<storage_type, index_txt, remote, download_failures, last_op, last_files>>

vars == <<gen_vars, repo_vars>>

----------------------------------------------------------------------------
(* Bounds of the model *)

\* args.jobs, the size of each thread pool
Jobs == 2
\* the most archives of the directory that are unreadable or hold undecodable names
MaxFaulty == 1
\* the most archive creations (tar -cf) that stop part-way
MaxTarFailures == 1

----------------------------------------------------------------------------
(* Strings *)

\* a byte that the locale's codec cannot decode
BadByte == "\\xff"

\* ord(c) for the characters the model uses
Code(c) ==
    CASE c = "-" -> 45 [] c = "." -> 46 [] c = "1" -> 49 [] c = "2" -> 50
      [] c = "a" -> 97 [] c = "b" -> 98 [] c = "c" -> 99 [] c = "g" -> 103
      [] c = "k" -> 107 [] c = "l" -> 108 [] c = "o" -> 111 [] c = "p" -> 112
      [] c = "s" -> 115 [] c = "t" -> 116 [] c = "v" -> 118 [] c = "w" -> 119
      [] c = "x" -> 120
      [] c = "z" -> 122 [] OTHER -> 255

\* str.endswith
EndsWith(s, suf) ==
    /\ Len(suf) <= Len(s)
    /\ SubSeq(s, Len(s) - Len(suf) + 1, Len(s)) = suf

\* sub in s
Contains(s, sub) ==
    \E i \in 1..(Len(s) + 1) :
        /\ i + Len(sub) - 1 <= Len(s)
        /\ SubSeq(s, i, i + Len(sub) - 1) = sub

\* s.replace(sub, ""): every non-overlapping occurrence, left to right
RECURSIVE RemoveAll(_, _)
RemoveAll(s, sub) ==
    IF Len(s) < Len(sub) THEN s
    ELSE IF SubSeq(s, 1, Len(sub)) = sub
         THEN RemoveAll(SubSeq(s, Len(sub) + 1, Len(s)), sub)
         ELSE <<s[1]>> \o RemoveAll(Tail(s), sub)

\* s.rsplit(c, 1)[0] for s that contains c
BeforeLast(s, c) ==
    LET i == CHOOSE k \in 1..Len(s) :
                 /\ s[k] = c
                 /\ \A j \in (k + 1)..Len(s) : s[j] # c
    IN SubSeq(s, 1, i - 1)

\* a < b for Python strings
RECURSIVE StrLess(_, _)
StrLess(a, b) ==
    IF b = <<>> THEN FALSE
    ELSE IF a = <<>> THEN TRUE
    ELSE IF a[1] = b[1] THEN StrLess(Tail(a), Tail(b))
    ELSE Code(a[1]) < Code(b[1])

\* sorted(list(S))
RECURSIVE Sorted(_)
Sorted(S) ==
    IF S = {} THEN <<>>
    ELSE LET m == CHOOSE x \in S : \A y \in S : y = x \/ StrLess(x, y)
         IN <<m>> \o Sorted(S \ {m})

\* text=True of subprocess.run decodes stdout; a byte outside the codec raises
Decodable(s) == \A i \in 1..Len(s) : s[i] # BadByte

DotLpkg == <<".", "l", "p", "k", "g">>
DotSo == <<".", "s", "o">>
Hyphen == "-"

----------------------------------------------------------------------------
(* Package names *)

\* pkg_name of process_phase1 and process_phase2
PkgName(lpkg) ==
    LET raw_name == RemoveAll(lpkg, DotLpkg)
    IN IF Contains(raw_name, <<Hyphen>>)
       THEN BeforeLast(raw_name, Hyphen)
       ELSE raw_name

\* s.rsplit(c, 1)[1] for s that contains c
AfterLast(s, c) == SubSeq(s, Len(BeforeLast(s, c)) + 2, Len(s))

\* parse_pkg_filename of lrepo-mgr.py; ok is FALSE where it returns (None, None)
parse_pkg_filename(filename) ==
    IF ~EndsWith(filename, DotLpkg)
    THEN [ok |-> FALSE, name |-> <<>>, version |-> <<>>]
    ELSE LET base == BeforeLast(filename, ".")
         IN IF ~Contains(base, <<Hyphen>>)
            THEN [ok |-> FALSE, name |-> <<>>, version |-> <<>>]
            ELSE [ok |-> TRUE, name |-> BeforeLast(base, Hyphen),
                  version |-> AfterLast(base, Hyphen)]

----------------------------------------------------------------------------
(* Files, trees and archives *)

NoFile == [exists |-> FALSE, lines |-> <<>>]
File(ls) == [exists |-> TRUE, lines |-> ls]

\* library identifiers
LibX == <<"x", ".", "s", "o">>
LibZ == <<"z">>

\* regular files of a content/ tree: base name, ELF magic, SONAME and NEEDED entries
LibObj == [fname |-> <<"v", ".", "s", "o">>, elf |-> TRUE,
           sonames |-> <<LibX>>, needed |-> <<>>]
AppObj == [fname |-> <<"b">>, elf |-> TRUE,
           sonames |-> <<>>, needed |-> <<LibX, LibZ>>]
LibZObj == [fname |-> <<"w">>, elf |-> TRUE, sonames |-> <<LibZ>>, needed |-> <<>>]
FallbackObj == [fname |-> LibX, elf |-> TRUE, sonames |-> <<>>, needed |-> <<>>]
TextObj == [fname |-> <<"t", ".", "s", "o">>, elf |-> FALSE,
            sonames |-> <<>>, needed |-> <<>>]
BadNameObj == [fname |-> <<"t", BadByte>>, elf |-> FALSE,
               sonames |-> <<>>, needed |-> <<>>]
BadNeededObj == [fname |-> <<"c">>, elf |-> TRUE,
                 sonames |-> <<>>, needed |-> <<<<"z", BadByte>>>>]

OldDeps == File(<<<<"o">>>>)

\* the content/ trees of the model, by a short name: the regular files under each
Tree ==
    [ t \in {"none", "lib", "libxz", "app", "both", "fallback", "noelf", "badname",
              "badneeded"} |->
        CASE t = "lib" -> {LibObj}
          [] t = "libxz" -> {LibObj, LibZObj}
          [] t = "app" -> {AppObj, TextObj}
          [] t = "both" -> {LibObj, AppObj}
          [] t = "fallback" -> {FallbackObj}
          [] t = "noelf" -> {TextObj}
          [] t = "badname" -> {BadNameObj}
          [] t = "badneeded" -> {BadNeededObj, LibObj}
          [] OTHER -> {} ]

\* an archive file: state "ok" (a complete zstd tar) or "corrupt" (truncated,
\* unreadable); its root holds content/ (tree names its files), deps.txt and
\* provides.txt
Archive(st, tr, d, pr, ow) ==
    [state |-> st, content |-> TRUE, tree |-> tr, deps |-> d,
     provides |-> pr, owner |-> ow]

Archives ==
    { Archive("ok", "lib", File(<<>>), TRUE, "user"),
      Archive("ok", "app", OldDeps, FALSE, "root"),
      Archive("ok", "both", NoFile, FALSE, "user"),
      Archive("ok", "fallback", OldDeps, TRUE, "root"),
      Archive("ok", "noelf", OldDeps, FALSE, "user"),
      Archive("ok", "badname", OldDeps, FALSE, "root"),
      Archive("ok", "badneeded", OldDeps, FALSE, "root"),
      Archive("corrupt", "both", OldDeps, TRUE, "user") }

\* the archives of a directory of three packages of three names, in which a
\* package can depend on two others
WideArchives ==
    { Archive("ok", "lib", File(<<>>), TRUE, "user"),
      Archive("ok", "libxz", OldDeps, FALSE, "root"),
      Archive("ok", "app", OldDeps, FALSE, "root"),
      Archive("ok", "badname", OldDeps, FALSE, "root"),
      Archive("ok", "badneeded", OldDeps, FALSE, "root") }

\* an archive that tar cannot read, or whose scan makes run_cmd raise
Faulty(a) ==
    \/ a.state # "ok"
    \/ \E o \in Tree[a.tree] :
          \/ ~Decodable(o.fname)
          \/ \E i \in 1..Len(o.needed) : ~Decodable(o.needed[i])
          \/ \E i \in 1..Len(o.sonames) : ~Decodable(o.sonames[i])

\* names the archives of the directory can have: two packages named b, one named a
DirNames ==
    { <<"a", "-", "1">> \o DotLpkg,
      <<"b", "-", "1">> \o DotLpkg,
      <<"b">> \o DotLpkg }

\* names of three packages of three names: a, b and c
WideNames ==
    { <<"a", "-", "1">> \o DotLpkg,
      <<"b", "-", "1">> \o DotLpkg,
      <<"c", "-", "2">> \o DotLpkg }

\* names of three packages, one of which has ".lpkg" inside its stem
OddNames ==
    { <<"a">> \o DotLpkg \o <<"-", "1">> \o DotLpkg,
      <<"b", "-", "1">> \o DotLpkg,
      <<"c">> \o DotLpkg }

\* a directory entry that is no package
Notes == <<"t", "x", "t">>

\* pkg_name of every archive name of the model
pkg_name_of == [f \in DirNames \cup WideNames \cup OddNames |-> PkgName(f)]

NoDir == [exists |-> FALSE, content |-> FALSE, tree |-> "none", deps |-> NoFile,
          provides |-> FALSE, owner |-> "root"]
EmptyDir == [NoDir EXCEPT !.exists = TRUE]

EmptyMap == [k \in {} |-> <<>>]

\* [f for f in os.listdir(target_dir) if f.endswith(".lpkg")]
Listing(dir) == {f \in DOMAIN dir : EndsWith(f, DotLpkg)}

NoArchive == [state |-> "none", content |-> FALSE, tree |-> "none", deps |-> NoFile,
              provides |-> FALSE, owner |-> "root"]

----------------------------------------------------------------------------
(* Paths: a path is the sequence of its components, each a string *)

\* target_dir = os.path.abspath(args.directory)
TargetDirPath == << <<"d", "i", "r">> >>

\* working_dir = tempfile.mkdtemp(prefix="lpkg_dep_gen_")
WorkingDirPath == << <<"t", "m", "p">> >>

\* extract_root = os.path.join(working_dir, "extract")
ExtractRoot == WorkingDirPath \o << <<"e", "x", "t", "r", "a", "c", "t">> >>

\* pkg_path = os.path.join(target_dir, lpkg)
PkgPath(lpkg) == TargetDirPath \o <<lpkg>>

\* extract_dir = os.path.join(extract_root, lpkg)
ExtractDir(lpkg) == ExtractRoot \o <<lpkg>>

\* deps_path = os.path.join(extract_dir, "deps.txt")
DepsPath(lpkg) == ExtractDir(lpkg) \o << <<"d", "e", "p", "s", ".", "t", "x", "t">> >>

DepsGen == <<"d", "e", "p", "s", "_", "g", "e", "n", "_">>
DotTxt == <<".", "t", "x", "t">>

\* a variant that names the temporary file after the package, not the archive
TempDepsPathByName(lpkg) == WorkingDirPath \o <<DepsGen \o PkgName(lpkg) \o DotTxt>>

\* temp_deps = os.path.join(working_dir, f"deps_gen_{lpkg}.txt")
TempDepsPath(lpkg) == WorkingDirPath \o <<DepsGen \o lpkg \o DotTxt>>

\* repack_path = pkg_path + ".repacked"
RepackPath(lpkg) ==
    TargetDirPath \o <<lpkg \o <<".", "r", "e", "p", "a", "c", "k", "e", "d">> >>

\* the paths a process_phase1 call reads or writes
Paths1(lpkg) == {PkgPath(lpkg), ExtractDir(lpkg)}

\* the paths a process_phase2 call reads or writes
Paths2(lpkg) ==
    {ExtractDir(lpkg), DepsPath(lpkg), TempDepsPath(lpkg), RepackPath(lpkg), PkgPath(lpkg)}

----------------------------------------------------------------------------
(* The pure parts of process_phase1 and process_phase2 *)

\* tar -I zstd -xf pkg_path -C extract_dir, after os.makedirs(extract_dir):
\* a readable archive yields its root; an unreadable one leaves the directory empty
Extracted(a) ==
    IF a.state = "ok"
    THEN [exists |-> TRUE, content |-> a.content, tree |-> a.tree, deps |-> a.deps,
          provides |-> a.provides, owner |-> a.owner]
    ELSE EmptyDir

\* the files "find content_dir -type f" prints
Found(d) == IF d.exists /\ d.content THEN Tree[d.tree] ELSE {}

\* run_cmd raises (UnicodeDecodeError) while process_phase1 runs
Phase1Raises(d) ==
    \/ \E o \in Found(d) : ~Decodable(o.fname)
    \/ \E o \in Found(d) : o.elf /\ \E i \in 1..Len(o.sonames) : ~Decodable(o.sonames[i])

\* a variant without "if is_elf(fpath)": every file is looked at
LocalProvidersOfAnyFile(d, pkg_name) ==
    UNION { { <<o.sonames[i], pkg_name>> : i \in 1..Len(o.sonames) } \cup
            ( IF Contains(o.fname, DotSo) THEN {<<o.fname, pkg_name>>} ELSE {} )
            : o \in Found(d) }

\* a variant that records only the file-name fallback, not the SONAMEs
LocalProvidersFallbackOnly(d, pkg_name) ==
    UNION { ( IF Contains(o.fname, DotSo) THEN {<<o.fname, pkg_name>>} ELSE {} )
            : o \in {f \in Found(d) : f.elf} }

\* local_providers of process_phase1; the list is modelled as the set of its pairs
\* (all pairs of one call carry the same pkg_name, so their order decides nothing)
LocalProviders(d, pkg_name) ==
    UNION { { <<o.sonames[i], pkg_name>> : i \in 1..Len(o.sonames) } \cup
            ( IF Contains(o.fname, DotSo) THEN {<<o.fname, pkg_name>>} ELSE {} )
            : o \in {f \in Found(d) : f.elf} }

\* a merge that lets a later pair replace the recorded package
MergeLastWins(m, pairs) ==
    LET keys == {pr[1] : pr \in pairs}
    IN [k \in DOMAIN m \cup keys |->
           IF k \in keys THEN (CHOOSE pr \in pairs : pr[1] = k)[2] ELSE m[k]]

\* a merge that forgets the pairs
MergeNothing(m, pairs) == m

\* main's merge of one future's result: "if sn not in provider_map"
Merge(m, pairs) ==
    LET keys == {pr[1] : pr \in pairs}
    IN [k \in DOMAIN m \cup keys |->
           IF k \in DOMAIN m THEN m[k] ELSE (CHOOSE pr \in pairs : pr[1] = k)[2]]

\* run_cmd raises while process_phase2 runs
Phase2Raises(d) ==
    \/ \E o \in Found(d) : ~Decodable(o.fname)
    \/ \E o \in Found(d) : o.elf /\ \E i \in 1..Len(o.needed) : ~Decodable(o.needed[i])

\* every NEEDED entry of the ELF objects of the tree
NeededOf(d) ==
    UNION { {o.needed[i] : i \in 1..Len(o.needed)} : o \in {f \in Found(d) : f.elf} }

\* a variant that keeps a NEEDED entry the index does not know, under its own name
LookupsKeepUnknown(d, m) ==
    { <<n, IF n \in DOMAIN m THEN m[n] ELSE n>> : n \in NeededOf(d) }

\* the (n, dep_pkg) pairs of the lookups "if n in provider_map: dep_pkg = provider_map[n]"
Lookups(d, m) == { <<n, m[n]>> : n \in NeededOf(d) \cap DOMAIN m }

\* a variant that depends on every indexed package of another name, whatever the
\* package needs
NeedsEveryProvider(d, m, pkg_name) == {m[k] : k \in DOMAIN m} \ {pkg_name}

\* a variant without "if dep_pkg != pkg_name"
NeedsWithSelf(d, m, pkg_name) == { lk[2] : lk \in Lookups(d, m) }

\* needs of process_phase2
Needs(d, m, pkg_name) == { lk[2] : lk \in {x \in Lookups(d, m) : x[2] # pkg_name} }

\* a variant that lists the names in descending order
FinalDepsDescending(needs) ==
    LET s == Sorted(needs) IN [i \in 1..Len(s) |-> s[Len(s) + 1 - i]]

\* final_deps = sorted(list(needs))
FinalDeps(needs) == Sorted(needs)

\* tar -I zstd -cf repack_path -C extract_dir . ; ok = tar wrote the whole archive
Tarred(d, ok) ==
    [state |-> IF ok THEN "ok" ELSE "corrupt", content |-> d.content, tree |-> d.tree,
     deps |-> d.deps, provides |-> d.provides, owner |-> d.owner]

----------------------------------------------------------------------------
(* Initial states *)

\* lrepo-mgr.py has not been run: the remote storage is empty
RepoIdle ==
    /\ storage_type = "s3"
    /\ index_txt = NoFile
    /\ remote = {}
    /\ download_failures = 0
    /\ last_op = "none"
    /\ last_files = <<>>

\* the state when main is invoked on a directory that holds archives of the set
\* given under some of the names given, or on a path that is no directory
InitDir(names, archives) ==
    /\ is_dir \in BOOLEAN
    /\ IF is_dir
       THEN \E S \in SUBSET names :
               \E pkgs \in [S -> archives] :
                   /\ Cardinality({f \in S : Faulty(pkgs[f])}) <= MaxFaulty
                   /\ target_dir = [f \in S \cup {Notes} |->
                                    IF f \in S THEN pkgs[f] ELSE NoArchive]
       ELSE target_dir = EmptyMap
    /\ lpkg_files = Listing(target_dir)
    /\ orig = target_dir
    /\ working_dir = FALSE
    /\ extract = [p \in lpkg_files |-> NoDir]
    /\ temp_deps = [p \in lpkg_files |-> NoFile]
    /\ repacked = [p \in lpkg_files |-> NoArchive]
    /\ provider_map = EmptyMap
    /\ main_pc = "start"
    /\ fut1 = [p \in lpkg_files |-> "none"]
    /\ result1 = [p \in lpkg_files |-> {}]
    /\ yielded1 = {}
    /\ fut2 = [p \in lpkg_files |-> "none"]
    /\ final_deps = [p \in lpkg_files |-> <<>>]
    /\ resolved = [p \in lpkg_files |-> {}]
    /\ yielded2 = {}
    /\ tar_failures = 0
    /\ run = 1
    /\ first_deps = [p \in lpkg_files |-> NoFile]
    /\ RepoIdle

\* main is invoked on a directory of up to three packages, two of them of one name
Init == InitDir(DirNames, Archives)

\* main is invoked on a directory of up to three packages of three names
InitWide == InitDir(WideNames, WideArchives)

\* main is invoked on a directory of up to three packages, one named with ".lpkg"
\* inside its stem
InitNames == InitDir(OddNames, WideArchives)

----------------------------------------------------------------------------
(* main, up to the submission of Phase 1 *)

\* "if not os.path.isdir(target_dir): sys.exit(1)"
ExitNotDir ==
    /\ main_pc = "start"
    /\ ~is_dir
    /\ main_pc' = "exit1"
    /\ UNCHANGED <<is_dir, target_dir, lpkg_files, orig, working_dir, extract, temp_deps, repacked,
                   provider_map, fut1, result1, yielded1, fut2, final_deps, resolved,
                   yielded2, tar_failures, run, first_deps>>
    /\ UNCHANGED repo_vars

\* "if not lpkg_files: sys.exit(0)"
ExitNoFiles ==
    /\ main_pc = "start"
    /\ is_dir
    /\ lpkg_files = {}
    /\ main_pc' = "exit0"
    /\ UNCHANGED <<is_dir, target_dir, lpkg_files, orig, working_dir, extract, temp_deps, repacked,
                   provider_map, fut1, result1, yielded1, fut2, final_deps, resolved,
                   yielded2, tar_failures, run, first_deps>>
    /\ UNCHANGED repo_vars

\* mkdtemp, provider_map = {}, and the submission of every process_phase1 call
StartPhase1 ==
    /\ main_pc = "start"
    /\ is_dir
    /\ lpkg_files # {}
    /\ working_dir' = TRUE
    /\ provider_map' = EmptyMap
    /\ fut1' = [p \in lpkg_files |-> "pending"]
    /\ main_pc' = "phase1"
    /\ UNCHANGED <<is_dir, target_dir, lpkg_files, orig, extract, temp_deps, repacked, result1,
                   yielded1, fut2, final_deps, resolved, yielded2, tar_failures, run, first_deps>>
    /\ UNCHANGED repo_vars

----------------------------------------------------------------------------
(* process_phase1, run by a worker of the first pool *)

Running1 == {p \in lpkg_files : fut1[p] = "running"}

\* a worker takes the call: makedirs and the extraction
P1Extract(p) ==
    /\ fut1[p] = "pending"
    /\ Cardinality(Running1) < Jobs
    /\ fut1' = [fut1 EXCEPT ![p] = "running"]
    /\ extract' = [extract EXCEPT ![p] = Extracted(target_dir[p])]
    /\ UNCHANGED <<is_dir, target_dir, lpkg_files, orig, working_dir, temp_deps, repacked,
                   provider_map, main_pc, result1, yielded1, fut2, final_deps,
                   resolved, yielded2, tar_failures, run, first_deps>>
    /\ UNCHANGED repo_vars

\* find, the scan of the ELF objects, and the return of local_providers
P1Scan(p) ==
    /\ fut1[p] = "running"
    /\ ~Phase1Raises(extract[p])
    /\ result1' = [result1 EXCEPT ![p] = LocalProviders(extract[p], pkg_name_of[p])]
    /\ fut1' = [fut1 EXCEPT ![p] = "finished"]
    /\ UNCHANGED <<is_dir, target_dir, lpkg_files, orig, working_dir, extract, temp_deps, repacked,
                   provider_map, main_pc, yielded1, fut2, final_deps, resolved,
                   yielded2, tar_failures, run, first_deps>>
    /\ UNCHANGED repo_vars

\* the call ends with an exception, which the future stores
P1Raise(p) ==
    /\ fut1[p] = "running"
    /\ Phase1Raises(extract[p])
    /\ fut1' = [fut1 EXCEPT ![p] = "raised"]
    /\ UNCHANGED <<is_dir, target_dir, lpkg_files, orig, working_dir, extract, temp_deps, repacked,
                   provider_map, main_pc, result1, yielded1, fut2, final_deps,
                   resolved, yielded2, tar_failures, run, first_deps>>
    /\ UNCHANGED repo_vars

----------------------------------------------------------------------------
(* main's Phase 1 loop *)

\* as_completed yields a completed future and its pairs are merged
P1Merge(p) ==
    /\ main_pc = "phase1"
    /\ p \notin yielded1
    /\ fut1[p] = "finished"
    /\ provider_map' = Merge(provider_map, result1[p])
    /\ yielded1' = yielded1 \cup {p}
    /\ UNCHANGED <<is_dir, target_dir, lpkg_files, orig, working_dir, extract, temp_deps, repacked,
                   main_pc, fut1, result1, fut2, final_deps, resolved, yielded2,
                   tar_failures, run, first_deps>>
    /\ UNCHANGED repo_vars

\* future.result() re-raises the call's exception: main leaves the loop
P1Reraise(p) ==
    /\ main_pc = "phase1"
    /\ p \notin yielded1
    /\ fut1[p] = "raised"
    /\ main_pc' = "unwind1"
    /\ UNCHANGED <<is_dir, target_dir, lpkg_files, orig, working_dir, extract, temp_deps, repacked,
                   provider_map, fut1, result1, yielded1, fut2, final_deps, resolved,
                   yielded2, tar_failures, run, first_deps>>
    /\ UNCHANGED repo_vars

\* the with-statement's exit waits for every submitted call, then the exception
\* leaves main
Unwind1 ==
    /\ main_pc = "unwind1"
    /\ \A p \in lpkg_files : fut1[p] \in {"finished", "raised"}
    /\ main_pc' = "raised"
    /\ UNCHANGED <<is_dir, target_dir, lpkg_files, orig, working_dir, extract, temp_deps, repacked,
                   provider_map, fut1, result1, yielded1, fut2, final_deps, resolved,
                   yielded2, tar_failures, run, first_deps>>
    /\ UNCHANGED repo_vars

\* a variant that leaves the Phase 1 loop after the first future
Phase1OverEarly == yielded1 # {}

\* the as_completed loop of Phase 1 has handled every future
Phase1Over == yielded1 = lpkg_files

\* the with-statement's exit waits for the first pool, then every process_phase2
\* call is submitted
StartPhase2 ==
    /\ main_pc = "phase1"
    /\ Phase1Over
    /\ \A p \in lpkg_files : fut1[p] \in {"finished", "raised"}
    /\ fut2' = [p \in lpkg_files |-> "pending"]
    /\ main_pc' = "phase2"
    /\ UNCHANGED <<is_dir, target_dir, lpkg_files, orig, working_dir, extract, temp_deps, repacked,
                   provider_map, fut1, result1, yielded1, final_deps, resolved,
                   yielded2, tar_failures, run, first_deps>>
    /\ UNCHANGED repo_vars

----------------------------------------------------------------------------
(* process_phase2, run by a worker of the second pool *)

InPhase2 == {"tempwritten", "removed", "copied", "tarred"}

Running2 == {p \in lpkg_files : fut2[p] \in InPhase2}

\* a variant in which the scan registers the package for what it could not resolve
MapAfterScanCaching(m, d, pkg_name) ==
    [k \in DOMAIN m \cup NeededOf(d) |-> IF k \in DOMAIN m THEN m[k] ELSE pkg_name]

\* provider_map as the scan of process_phase2 leaves it: it is only read
MapAfterScan(m, d, pkg_name) == m

\* a worker takes the call: find, the NEEDED lookups, final_deps, and
\* with open(temp_deps, "w") as f: one line per name of final_deps
P2Scan(p) ==
    /\ fut2[p] = "pending"
    /\ Cardinality(Running2) < Jobs
    /\ ~Phase2Raises(extract[p])
    /\ resolved' = [resolved EXCEPT ![p] = Lookups(extract[p], provider_map)]
    /\ final_deps' = [final_deps EXCEPT
                         ![p] = FinalDeps(Needs(extract[p], provider_map, pkg_name_of[p]))]
    /\ provider_map' = MapAfterScan(provider_map, extract[p], pkg_name_of[p])
    /\ temp_deps' = [temp_deps EXCEPT
                        ![p] = File(FinalDeps(Needs(extract[p], provider_map,
                                                       pkg_name_of[p])))]
    /\ fut2' = [fut2 EXCEPT ![p] = "tempwritten"]
    /\ UNCHANGED <<is_dir, target_dir, lpkg_files, orig, working_dir, extract, repacked,
                   main_pc, fut1, result1, yielded1, yielded2, tar_failures, run, first_deps>>
    /\ UNCHANGED repo_vars

\* a worker takes the call and it ends with an exception before it writes anything
P2Raise(p) ==
    /\ fut2[p] = "pending"
    /\ Cardinality(Running2) < Jobs
    /\ Phase2Raises(extract[p])
    /\ fut2' = [fut2 EXCEPT ![p] = "raised"]
    /\ UNCHANGED <<is_dir, target_dir, lpkg_files, orig, working_dir, extract, temp_deps, repacked,
                   provider_map, main_pc, fut1, result1, yielded1, final_deps,
                   resolved, yielded2, tar_failures, run, first_deps>>
    /\ UNCHANGED repo_vars

\* sudo rm -f deps_path
P2Rm(p) ==
    /\ fut2[p] = "tempwritten"
    /\ extract' = [extract EXCEPT ![p].deps = NoFile]
    /\ fut2' = [fut2 EXCEPT ![p] = "removed"]
    /\ UNCHANGED <<is_dir, target_dir, lpkg_files, orig, working_dir, temp_deps, repacked,
                   provider_map, main_pc, fut1, result1, yielded1, final_deps,
                   resolved, yielded2, tar_failures, run, first_deps>>
    /\ UNCHANGED repo_vars

\* sudo cp temp_deps deps_path
P2Cp(p) ==
    /\ fut2[p] = "removed"
    /\ extract' = [extract EXCEPT ![p].deps = temp_deps[p]]
    /\ fut2' = [fut2 EXCEPT ![p] = "copied"]
    /\ UNCHANGED <<is_dir, target_dir, lpkg_files, orig, working_dir, temp_deps, repacked,
                   provider_map, main_pc, fut1, result1, yielded1, final_deps,
                   resolved, yielded2, tar_failures, run, first_deps>>
    /\ UNCHANGED repo_vars

\* sudo chown -R root:root extract_dir, then sudo tar -I zstd -cf repack_path:
\* run_cmd returns whether tar wrote the whole archive or stopped part-way, and
\* its return code is not looked at
P2Tar(p) ==
    /\ fut2[p] = "copied"
    /\ \E ok \in BOOLEAN :
          /\ ~ok => tar_failures < MaxTarFailures
          /\ tar_failures' = IF ok THEN tar_failures ELSE tar_failures + 1
          /\ repacked' = [repacked EXCEPT
                             ![p] = Tarred([extract[p] EXCEPT !.owner = "root"], ok)]
    /\ extract' = [extract EXCEPT ![p].owner = "root"]
    /\ fut2' = [fut2 EXCEPT ![p] = "tarred"]
    /\ UNCHANGED <<is_dir, target_dir, lpkg_files, orig, working_dir, temp_deps,
                   provider_map, main_pc, fut1, result1, yielded1, final_deps,
                   resolved, yielded2, run, first_deps>>
    /\ UNCHANGED repo_vars

\* the archive at pkg_path after "sudo mv repack_path pkg_path"
Moved(old, new) == IF new.state = "none" THEN old ELSE new

\* sudo mv repack_path pkg_path, and the return of (lpkg, final_deps)
P2Mv(p) ==
    /\ fut2[p] = "tarred"
    /\ target_dir' = [target_dir EXCEPT ![p] = Moved(target_dir[p], repacked[p])]
    /\ repacked' = [repacked EXCEPT ![p] = NoArchive]
    /\ fut2' = [fut2 EXCEPT ![p] = "finished"]
    /\ UNCHANGED <<is_dir, lpkg_files, orig, working_dir, extract, temp_deps, provider_map,
                   main_pc, fut1, result1, yielded1, final_deps, resolved, yielded2,
                   tar_failures, run, first_deps>>
    /\ UNCHANGED repo_vars

----------------------------------------------------------------------------
(* main's Phase 2 loop and the cleanup *)

\* as_completed yields a completed future; its result is printed
P2Yield(p) ==
    /\ main_pc = "phase2"
    /\ p \notin yielded2
    /\ fut2[p] = "finished"
    /\ yielded2' = yielded2 \cup {p}
    /\ UNCHANGED <<is_dir, target_dir, lpkg_files, orig, working_dir, extract, temp_deps, repacked,
                   provider_map, main_pc, fut1, result1, yielded1, fut2, final_deps,
                   resolved, tar_failures, run, first_deps>>
    /\ UNCHANGED repo_vars

\* future.result() re-raises the call's exception: main leaves the loop
P2Reraise(p) ==
    /\ main_pc = "phase2"
    /\ p \notin yielded2
    /\ fut2[p] = "raised"
    /\ main_pc' = "unwind2"
    /\ UNCHANGED <<is_dir, target_dir, lpkg_files, orig, working_dir, extract, temp_deps, repacked,
                   provider_map, fut1, result1, yielded1, fut2, final_deps, resolved,
                   yielded2, tar_failures, run, first_deps>>
    /\ UNCHANGED repo_vars

\* the with-statement's exit waits for every submitted call, then the exception
\* leaves main: the cleanup is not reached
Unwind2 ==
    /\ main_pc = "unwind2"
    /\ \A p \in lpkg_files : fut2[p] \in {"finished", "raised"}
    /\ main_pc' = "raised"
    /\ UNCHANGED <<is_dir, target_dir, lpkg_files, orig, working_dir, extract, temp_deps, repacked,
                   provider_map, fut1, result1, yielded1, fut2, final_deps, resolved,
                   yielded2, tar_failures, run, first_deps>>
    /\ UNCHANGED repo_vars

\* sudo rm -rf working_dir, "All tasks completed successfully!"
Cleanup ==
    /\ main_pc = "phase2"
    /\ yielded2 = lpkg_files
    /\ working_dir' = FALSE
    /\ extract' = [p \in lpkg_files |-> NoDir]
    /\ temp_deps' = [p \in lpkg_files |-> NoFile]
    /\ main_pc' = "done"
    /\ UNCHANGED <<is_dir, target_dir, lpkg_files, orig, repacked, provider_map, fut1, result1,
                   yielded1, fut2, final_deps, resolved, yielded2, tar_failures, run, first_deps>>
    /\ UNCHANGED repo_vars

----------------------------------------------------------------------------
(* One run of main *)

Ended == main_pc \in {"done", "raised", "exit0", "exit1"}

Next ==
    \/ ExitNotDir
    \/ ExitNoFiles
    \/ StartPhase1
    \/ \E p \in lpkg_files : P1Extract(p)
    \/ \E p \in lpkg_files : P1Scan(p)
    \/ \E p \in lpkg_files : P1Raise(p)
    \/ \E p \in lpkg_files : P1Merge(p)
    \/ \E p \in lpkg_files : P1Reraise(p)
    \/ Unwind1
    \/ StartPhase2
    \/ \E p \in lpkg_files : P2Scan(p)
    \/ \E p \in lpkg_files : P2Raise(p)
    \/ \E p \in lpkg_files : P2Rm(p)
    \/ \E p \in lpkg_files : P2Cp(p)
    \/ \E p \in lpkg_files : P2Tar(p)
    \/ \E p \in lpkg_files : P2Mv(p)
    \/ \E p \in lpkg_files : P2Yield(p)
    \/ \E p \in lpkg_files : P2Reraise(p)
    \/ Unwind2
    \/ Cleanup

Spec == Init /\ [][Next]_vars

----------------------------------------------------------------------------
(* One run of main under fair scheduling *)

\* a pool worker that is free takes a waiting call, a command a call has started
\* returns, and main's thread runs on: a step that can be taken is taken
SpecFair == Init /\ [][Next]_vars /\ WF_vars(Next)

----------------------------------------------------------------------------
(* Two runs of main in succession over the same directory *)

\* main is invoked again after it ended: a new working directory, new pools, a new
\* provider_map; the directory holds what the first run left
Rerun ==
    /\ Ended
    /\ run = 1
    /\ run' = 2
    /\ first_deps' = [p \in lpkg_files |-> target_dir[p].deps]
    /\ lpkg_files' = Listing(target_dir)
    /\ working_dir' = FALSE
    /\ extract' = [p \in lpkg_files |-> NoDir]
    /\ temp_deps' = [p \in lpkg_files |-> NoFile]
    /\ provider_map' = EmptyMap
    /\ main_pc' = "start"
    /\ fut1' = [p \in lpkg_files |-> "none"]
    /\ result1' = [p \in lpkg_files |-> {}]
    /\ yielded1' = {}
    /\ fut2' = [p \in lpkg_files |-> "none"]
    /\ final_deps' = [p \in lpkg_files |-> <<>>]
    /\ resolved' = [p \in lpkg_files |-> {}]
    /\ yielded2' = {}
    /\ UNCHANGED <<is_dir, target_dir, orig, repacked, tar_failures>>
    /\ UNCHANGED repo_vars

NextTwice == Next \/ Rerun

SpecTwice == Init /\ [][NextTwice]_vars

----------------------------------------------------------------------------
(* One run of main over packages of three names *)

SpecWide == InitWide /\ [][Next]_vars

----------------------------------------------------------------------------
(* One run of main over archives with unusual file names *)

SpecNames == InitNames /\ [][Next]_vars

----------------------------------------------------------------------------
(* lrepo-mgr.py: strings *)

\* the most files one push_packages call goes through
MaxPush == 2
\* the most downloads of an existing index.txt that fail
MaxDownloadFailures == 1

\* the line feed
NL == "\\n"
Comma == ","
Bar == "|"
Colon == ":"
Hash == "#"

\* what tar -O prints for a file of these lines
Stdout(lines) ==
    IF lines = <<>> THEN <<>>
    ELSE LET Cat[i \in 1..Len(lines)] ==
                 IF i = 1 THEN lines[1] \o <<NL>> ELSE Cat[i - 1] \o lines[i] \o <<NL>>
         IN Cat[Len(lines)]

\* str.strip(): the white space of the model is the line feed
RECURSIVE Strip(_)
Strip(s) ==
    IF s = <<>> THEN s
    ELSE IF s[1] = NL THEN Strip(Tail(s))
    ELSE IF s[Len(s)] = NL THEN Strip(SubSeq(s, 1, Len(s) - 1))
    ELSE s

\* s.replace(c, d) for single characters
ReplaceChar(s, c, d) == [i \in 1..Len(s) |-> IF s[i] = c THEN d ELSE s[i]]

\* s.split(c)
RECURSIVE Split(_, _)
Split(s, c) ==
    IF \A i \in 1..Len(s) : s[i] # c THEN <<s>>
    ELSE LET k == CHOOSE i \in 1..Len(s) : s[i] = c /\ \A j \in 1..(i - 1) : s[j] # c
         IN <<SubSeq(s, 1, k - 1)>> \o Split(SubSeq(s, k + 1, Len(s)), c)

\* s.split(c, 1) for s that contains c
SplitOnce(s, c) ==
    LET k == CHOOSE i \in 1..Len(s) : s[i] = c /\ \A j \in 1..(i - 1) : s[j] # c
    IN <<SubSeq(s, 1, k - 1), SubSeq(s, k + 1, Len(s))>>

\* c.join(parts)
JoinWith(parts, c) ==
    IF parts = <<>> THEN <<>>
    ELSE LET Cat[i \in 1..Len(parts)] ==
                 IF i = 1 THEN parts[1] ELSE Cat[i - 1] \o <<c>> \o parts[i]
         IN Cat[Len(parts)]

----------------------------------------------------------------------------
(* lrepo-mgr.py: the local files and their metadata *)

\* the lines of a provides.txt
ProvidesLines == << <<"p">> >>

\* extract_metadata: tar returns 0 where the archive is readable and has the member
extract_metadata(a) ==
    [deps |-> IF a.state = "ok" /\ a.deps.exists
              THEN ReplaceChar(Strip(Stdout(a.deps.lines)), NL, Comma)
              ELSE <<>>,
     provides |-> IF a.state = "ok" /\ a.provides
                  THEN ReplaceChar(Strip(Stdout(ProvidesLines)), NL, Comma)
                  ELSE <<>>]

\* the files the patterns of a push can match: two versions of package a, the
\* second with an empty deps.txt, one of package b, and a file without version
LocalFiles ==
    [f \in { <<"a", "-", "1">> \o DotLpkg, <<"a", "-", "2">> \o DotLpkg,
             <<"b", "-", "1">> \o DotLpkg, <<"b">> \o DotLpkg } |->
        CASE f = <<"a", "-", "1">> \o DotLpkg ->
                 Archive("ok", "app", File(<< <<"b">> >>), TRUE, "root")
          [] f = <<"a", "-", "2">> \o DotLpkg ->
                 Archive("ok", "app", File(<<>>), FALSE, "root")
          [] f = <<"b", "-", "1">> \o DotLpkg ->
                 Archive("ok", "lib", File(<< <<"a">>, <<"c">> >>), TRUE, "root")
          [] OTHER -> Archive("ok", "noelf", File(<<>>), FALSE, "root") ]

\* calculate_sha256: some hexadecimal digest, one per file
calculate_sha256(f) ==
    CASE f = <<"a", "-", "1">> \o DotLpkg -> <<"a", "1">>
      [] f = <<"a", "-", "2">> \o DotLpkg -> <<"a", "2">>
      [] f = <<"b", "-", "1">> \o DotLpkg -> <<"b", "1">>
      [] OTHER -> <<"b", "b">>

\* the lists of files glob can return for the patterns of a push
RECURSIVE FileLists(_)
FileLists(n) ==
    IF n = 0 THEN {<<>>}
    ELSE LET shorter == FileLists(n - 1)
         IN shorter \cup
            { Append(l, f) : l \in {x \in shorter : Len(x) = n - 1},
                             f \in DOMAIN LocalFiles }

PushChoices ==
    { l \in FileLists(MaxPush) :
        l # <<>> /\ \A i \in 1..Len(l) : \A j \in 1..Len(l) : i # j => l[i] # l[j] }

----------------------------------------------------------------------------
(* lrepo-mgr.py: the aggregated index *)

\* index_data is a dict in insertion order: a sequence of entries, each with a
\* name, its versions (a dict version -> digest, a sequence of pairs), deps, provides
Find(data, name) ==
    IF \E i \in 1..Len(data) : data[i].name = name
    THEN CHOOSE i \in 1..Len(data) : data[i].name = name
    ELSE 0

\* versions[v] = h
SetVersion(versions, v, h) ==
    IF \E i \in 1..Len(versions) : versions[i][1] = v
    THEN [i \in 1..Len(versions) |->
             IF versions[i][1] = v THEN <<v, h>> ELSE versions[i]]
    ELSE Append(versions, <<v, h>>)

\* del seq[i]
Without(seq, i) == SubSeq(seq, 1, i - 1) \o SubSeq(seq, i + 1, Len(seq))

\* data[name] = entry
SetEntry(data, entry) ==
    IF Find(data, entry.name) = 0 THEN Append(data, entry)
    ELSE [data EXCEPT ![Find(data, entry.name)] = entry]

\* the versions dict of one line: "for vh in versions_part: if ':' in vh"
RECURSIVE ParseVersions(_)
ParseVersions(parts) ==
    IF parts = <<>> THEN <<>>
    ELSE LET before == ParseVersions(SubSeq(parts, 1, Len(parts) - 1))
             vh == parts[Len(parts)]
         IN IF Contains(vh, <<Colon>>)
            THEN SetVersion(before, SplitOnce(vh, Colon)[1], SplitOnce(vh, Colon)[2])
            ELSE before

\* parse_aggregated_index
RECURSIVE parse_aggregated_index(_)
parse_aggregated_index(lines) ==
    IF lines = <<>> THEN <<>>
    ELSE LET data == parse_aggregated_index(SubSeq(lines, 1, Len(lines) - 1))
             line == Strip(lines[Len(lines)])
             parts == Split(line, Bar)
         IN IF line = <<>> \/ line[1] = Hash \/ Len(parts) < 2 THEN data
            ELSE SetEntry(data,
                     [name |-> parts[1],
                      versions |-> ParseVersions(Split(parts[2], Comma)),
                      deps |-> IF Len(parts) > 2 THEN parts[3] ELSE <<>>,
                      provides |-> IF Len(parts) > 3 THEN parts[4] ELSE <<>>])

\* write_aggregated_index: one line name|v1:h1,v2:h2|deps|provides per entry
write_aggregated_index(data) ==
    [i \in 1..Len(data) |->
        data[i].name \o <<Bar>>
        \o JoinWith([k \in 1..Len(data[i].versions) |->
                        data[i].versions[k][1] \o <<Colon>> \o data[i].versions[k][2]],
                    Comma)
        \o <<Bar>> \o data[i].deps \o <<Bar>> \o data[i].provides]

\* download_index: the lines of the local copy; an empty file where the download
\* raised
Downloaded(failed) == IF index_txt.exists /\ ~failed THEN index_txt.lines ELSE <<>>

\* the download can raise where there is no index.txt (it does) or by a fault of
\* the transport
CanFail(failed) ==
    failed => (index_txt.exists /\ download_failures < MaxDownloadFailures)

----------------------------------------------------------------------------
(* lrepo-mgr.py: the commands *)

\* "if not name: continue" after parse_pkg_filename
Skipped(f) == ~parse_pkg_filename(f).ok \/ parse_pkg_filename(f).name = <<>>

\* index_data after the body of the loop of push_packages for a file not skipped
IndexedOne(data, f) ==
    LET pf == parse_pkg_filename(f)
        md == extract_metadata(LocalFiles[f])
        had == IF Find(data, pf.name) = 0
               THEN Append(data, [name |-> pf.name, versions |-> <<>>,
                                  deps |-> md.deps, provides |-> md.provides])
               ELSE data
        i == Find(had, pf.name)
    IN [had EXCEPT ![i] =
           [name |-> pf.name,
            versions |-> SetVersion(had[i].versions, pf.version, calculate_sha256(f)),
            deps |-> IF md.deps # <<>> THEN md.deps ELSE had[i].deps,
            provides |-> IF md.provides # <<>> THEN md.provides ELSE had[i].provides]]

\* index_data after the loop of push_packages over files
RECURSIVE Indexed(_, _)
Indexed(data, files) ==
    IF files = <<>> THEN data
    ELSE LET before == Indexed(data, SubSeq(files, 1, Len(files) - 1))
             f == files[Len(files)]
         IN IF Skipped(f) THEN before ELSE IndexedOne(before, f)

\* remote_pkg_path, as the pair of its directory and its file name
RemotePkg(name, version) == <<name, version \o DotLpkg>>

\* the remote files the loop of push_packages uploads
Uploaded(files) ==
    { RemotePkg(parse_pkg_filename(files[i]).name, parse_pkg_filename(files[i]).version)
      : i \in {k \in 1..Len(files) : ~Skipped(files[k])} }

\* push_packages for patterns that match files
PushPackages(files) ==
    /\ files # <<>>
    /\ \E failed \in BOOLEAN :
          /\ CanFail(failed)
          /\ download_failures' = IF failed THEN download_failures + 1
                                  ELSE download_failures
          /\ index_txt' = File(write_aggregated_index(
                                   Indexed(parse_aggregated_index(Downloaded(failed)),
                                           files)))
    /\ remote' = remote \cup Uploaded(files)
    /\ last_op' = "push"
    /\ last_files' = files
    /\ UNCHANGED storage_type
    /\ UNCHANGED gen_vars

\* index_data after delete_package
Deleted(data, name, version) ==
    LET i == Find(data, name)
    IN IF i = 0 THEN data
       ELSE IF version = <<>> THEN Without(data, i)
       ELSE IF \E k \in 1..Len(data[i].versions) : data[i].versions[k][1] = version
       THEN LET k == CHOOSE j \in 1..Len(data[i].versions) :
                         data[i].versions[j][1] = version
                left == Without(data[i].versions, k)
            IN IF left = <<>> THEN Without(data, i)
               ELSE [data EXCEPT ![i].versions = left]
       ELSE data

\* the remote files after delete_package: delete_remote_file of the version where
\* the index lists it, delete_remote_dir of the package where no version is given
RemoteAfterDelete(data, name, version) ==
    IF version = <<>> THEN {r \in remote : r[1] # name}
    ELSE IF Deleted(data, name, version) # data THEN remote \ {RemotePkg(name, version)}
    ELSE remote

\* the names and versions a delete command can be given; no version is <<>>
DeleteNames == { <<"a">>, <<"b">> }
DeleteVersions == { <<>>, <<"1">>, <<"2">> }

\* delete_package
DeletePackage(name, version) ==
    /\ \E failed \in BOOLEAN :
          /\ CanFail(failed)
          /\ download_failures' = IF failed THEN download_failures + 1
                                  ELSE download_failures
          /\ LET data == parse_aggregated_index(Downloaded(failed))
             IN /\ remote' = RemoteAfterDelete(data, name, version)
                /\ index_txt' = File(write_aggregated_index(Deleted(data, name, version)))
    /\ last_op' = "delete"
    /\ last_files' = <<>>
    /\ UNCHANGED storage_type
    /\ UNCHANGED gen_vars

\* list_remote_dirs
list_remote_dirs == {r[1] : r \in remote}

\* list_remote_files: only the s3 branch fills the list
list_remote_files(pkg) ==
    IF storage_type = "s3" THEN {r[2] : r \in {x \in remote : x[1] = pkg}} ELSE {}

\* the remote files cleanup_repository deletes
Cleaned(data) ==
    { r \in remote :
        \/ Find(data, r[1]) = 0
        \/ /\ r[2] \in list_remote_files(r[1])
           /\ EndsWith(r[2], DotLpkg)
           /\ \A k \in 1..Len(data[Find(data, r[1])].versions) :
                  data[Find(data, r[1])].versions[k][1] # BeforeLast(r[2], ".") }

\* cleanup_repository
CleanupRepository ==
    /\ \E failed \in BOOLEAN :
          /\ CanFail(failed)
          /\ download_failures' = IF failed THEN download_failures + 1
                                  ELSE download_failures
          /\ remote' = remote \ Cleaned(parse_aggregated_index(Downloaded(failed)))
    /\ last_op' = "cleanup"
    /\ last_files' = <<>>
    /\ UNCHANGED <<storage_type, index_txt>>
    /\ UNCHANGED gen_vars

\* gen_deps.py is not running
GenIdle ==
    /\ is_dir = FALSE
    /\ target_dir = EmptyMap
    /\ lpkg_files = {}
    /\ orig = EmptyMap
    /\ working_dir = FALSE
    /\ extract = EmptyMap
    /\ temp_deps = EmptyMap
    /\ repacked = EmptyMap
    /\ provider_map = EmptyMap
    /\ main_pc = "start"
    /\ fut1 = EmptyMap
    /\ result1 = EmptyMap
    /\ yielded1 = {}
    /\ fut2 = EmptyMap
    /\ final_deps = EmptyMap
    /\ resolved = EmptyMap
    /\ yielded2 = {}
    /\ tar_failures = 0
    /\ run = 1
    /\ first_deps = EmptyMap

\* RepoManager(config) over an empty remote storage of either type
InitRepo ==
    /\ GenIdle
    /\ storage_type \in {"s3", "scp"}
    /\ index_txt = NoFile
    /\ remote = {}
    /\ download_failures = 0
    /\ last_op = "none"
    /\ last_files = <<>>

\* the commands of main of lrepo-mgr.py
NextRepo ==
    \/ \E files \in PushChoices : PushPackages(files)
    \/ \E name \in DeleteNames : \E version \in DeleteVersions :
           DeletePackage(name, version)
    \/ CleanupRepository

SpecRepo == InitRepo /\ [][NextRepo]_vars

----------------------------------------------------------------------------
(* Vocabulary of the properties *)

Range(seq) == {seq[i] : i \in 1..Len(seq)}

\* the archives of the directory that tar can read, as the run found them
Readable == {p \in lpkg_files : orig[p].state = "ok"}

\* packages with an ELF object that declares SONAME s
Declarers(s) ==
    {p \in Readable : \E o \in Tree[orig[p].tree] : o.elf /\ s \in Range(o.sonames)}

\* packages with an ELF object that declares SONAME s or is a file named s, with
\* ".so" in the name
Registrants(s) ==
    {p \in Readable : \E o \in Tree[orig[p].tree] :
        o.elf /\ (s \in Range(o.sonames) \/ (o.fname = s /\ Contains(s, DotSo)))}

\* packages with an ELF object that has NEEDED s
Consumers(s) ==
    {p \in Readable : \E o \in Tree[orig[p].tree] : o.elf /\ s \in Range(o.needed)}

\* every identifier an archive of the model mentions
Identifiers ==
    UNION { Range(o.sonames) \cup Range(o.needed) \cup {o.fname}
            : o \in UNION {Tree[a.tree] : a \in Archives \cup WideArchives} }

Names(P) == {pkg_name_of[p] : p \in P}

Started2(p) == fut2[p] \notin {"none", "pending"}

Scanned2(p) == fut2[p] \in InPhase2 \cup {"finished"}

----------------------------------------------------------------------------
(* C1 *)

\* C1: whenever some process_phase2 call has started, every process_phase1 call
\* of every package has finished, main has handled its future, and every pair it
\* returned has its identifier in provider_map.
C1_Phase2AfterWholeIndex ==
    (\E p \in lpkg_files : Started2(p)) =>
        \A q \in lpkg_files :
            /\ fut1[q] = "finished"
            /\ q \in yielded1
            /\ \A pr \in result1[q] : pr[1] \in DOMAIN provider_map

C1_Witness ==
    /\ Cardinality(lpkg_files) >= 2
    /\ \E p \in lpkg_files : fut2[p] = "tempwritten"
    /\ \E p \in lpkg_files : fut2[p] = "pending"
    /\ \E q \in lpkg_files : result1[q] # {}

----------------------------------------------------------------------------
(* C2 *)

\* C2: no step removes a key of provider_map or changes the package recorded
\* for a key that is already present.
C2_FirstWriterWins ==
    [][\A k \in DOMAIN provider_map :
          k \in DOMAIN provider_map' /\ provider_map'[k] = provider_map[k]]_vars

\* a merged future returned a pair for a key that another package already held
C2_Witness ==
    \E p \in yielded1 : \E pr \in result1[p] :
        /\ pr[1] \in DOMAIN provider_map
        /\ provider_map[pr[1]] # pr[2]

----------------------------------------------------------------------------
(* C3 *)

\* C3: once the process_phase2 calls exist, no step changes provider_map.
C3_IndexFrozenInPhase2 ==
    [][(\E p \in lpkg_files : fut2[p] # "none") => provider_map' = provider_map]_vars

C3_Witness ==
    /\ provider_map # EmptyMap
    /\ \E p \in lpkg_files : fut2[p] = "finished" /\ p \in yielded2
    /\ \E p \in lpkg_files : fut2[p] = "removed"
    /\ \E p \in lpkg_files : \E n \in NeededOf(extract[p]) : n \notin DOMAIN provider_map

----------------------------------------------------------------------------
(* C4 *)

\* C4: the name of a package is never in the dependency list process_phase2
\* computes for it, nor in the temporary file, the deps.txt or the archive it
\* writes from that list.
C4_NoSelfDependency ==
    \A p \in lpkg_files :
        /\ pkg_name_of[p] \notin Range(final_deps[p])
        /\ pkg_name_of[p] \notin Range(temp_deps[p].lines)
        /\ fut2[p] \in {"copied", "tarred", "finished"} =>
               pkg_name_of[p] \notin Range(extract[p].deps.lines)
        /\ fut2[p] = "finished" => pkg_name_of[p] \notin Range(target_dir[p].deps.lines)

\* a package that declares and needs the same SONAME has been resolved, and the
\* index entry of that SONAME carries its own name
C4_Witness ==
    \E p \in lpkg_files : \E s \in Identifiers :
        /\ fut2[p] = "finished"
        /\ p \in Declarers(s) \cap Consumers(s)
        /\ <<s, pkg_name_of[p]>> \in resolved[p]

----------------------------------------------------------------------------
(* C5 *)

\* C5 as stated: if A declares SONAME s and B, of another name, needs s, then
\* once B is resolved and repacked B's dependency list contains A's name.
C5_Original ==
    \A s \in Identifiers : \A a \in Declarers(s) : \A b \in Consumers(s) :
        ( /\ pkg_name_of[a] # pkg_name_of[b]
          /\ fut2[b] = "finished"
          /\ target_dir[b].state = "ok" ) =>
            /\ pkg_name_of[a] \in Range(final_deps[b])
            /\ pkg_name_of[a] \in Range(target_dir[b].deps.lines)

\* C5 as amended: if A declares SONAME s, every package that registers s (by
\* SONAME or by file name) has A's name, and B, of another name, needs s, then
\* once B is resolved and repacked B's dependency list contains A's name.
C5_SoleProviderResolved ==
    \A s \in Identifiers : \A a \in Declarers(s) : \A b \in Consumers(s) :
        ( /\ pkg_name_of[a] # pkg_name_of[b]
          /\ Names(Registrants(s)) = {pkg_name_of[a]}
          /\ fut2[b] = "finished"
          /\ target_dir[b].state = "ok" ) =>
            /\ pkg_name_of[a] \in Range(final_deps[b])
            /\ pkg_name_of[a] \in Range(target_dir[b].deps.lines)

C5_Witness ==
    \E s \in Identifiers : \E a \in Declarers(s) : \E b \in Consumers(s) :
        /\ pkg_name_of[a] # pkg_name_of[b]
        /\ Names(Registrants(s)) = {pkg_name_of[a]}
        /\ Cardinality(Registrants(s)) = 2
        /\ fut2[b] = "finished"
        /\ target_dir[b].state = "ok"

----------------------------------------------------------------------------
(* C6 *)

\* C6 as stated: when two or more packages declare SONAME s, then in Phase 2 the
\* recorded provider of s is one of them, and every package that needs s has
\* looked s up to that provider.
C6_Original ==
    (\E p \in lpkg_files : fut2[p] # "none") =>
        \A s \in Identifiers :
            Cardinality(Declarers(s)) >= 2 =>
                /\ s \in DOMAIN provider_map
                /\ provider_map[s] \in Names(Declarers(s))
                /\ \A c \in Consumers(s) :
                       Scanned2(c) => <<s, provider_map[s]>> \in resolved[c]

\* C6 as amended: when two or more packages declare SONAME s, then in Phase 2 s has
\* one recorded provider, the name of a package that registers s by SONAME or by
\* the file name of an ELF object, and every package that needs s has looked s up
\* to that provider and to no other.
C6_SingleProvider ==
    (\E p \in lpkg_files : fut2[p] # "none") =>
        \A s \in Identifiers :
            Cardinality(Declarers(s)) >= 2 =>
                /\ s \in DOMAIN provider_map
                /\ provider_map[s] \in Names(Registrants(s))
                /\ \A c \in Consumers(s) :
                       Scanned2(c) =>
                           {lk \in resolved[c] : lk[1] = s} = {<<s, provider_map[s]>>}

\* two packages of different names declare s, and two packages have looked s up
C6_Witness ==
    \E s \in Identifiers :
        /\ Cardinality(Names(Declarers(s))) >= 2
        /\ Cardinality({c \in Consumers(s) : Scanned2(c)}) >= 2

----------------------------------------------------------------------------
(* C7 *)

\* deps.txt of every archive is what it was when the first run ended
SameDepsAsFirstRun == \A p \in lpkg_files : target_dir[p].deps = first_deps[p]

----------------------------------------------------------------------------
(* C8 *)

\* the package itself failed: its archive is unreadable, a command's output for
\* it cannot be decoded, or the creation of its new archive stopped part-way
OwnFailure(p) ==
    \/ Faulty(orig[p])
    \/ repacked[p].state = "corrupt"
    \/ target_dir[p].state = "corrupt"

\* C8 as stated: when main has ended, every package that did not fail itself has
\* been through both phases: its dependency list was computed against the whole
\* index and its archive holds the regenerated deps.txt.
C8_FailureIsolated ==
    main_pc \in {"done", "raised"} =>
        \A p \in lpkg_files :
            ~OwnFailure(p) =>
                /\ fut1[p] = "finished"
                /\ fut2[p] = "finished"
                /\ target_dir[p].state = "ok"
                /\ target_dir[p].deps = File(final_deps[p])

----------------------------------------------------------------------------
(* C9 *)

\* C9 as stated: for a package whose archive cannot be read, no dependency file
\* is generated, no repack is attempted, its archive is left alone, and the run
\* does not end reporting success.
C9_UnreadableSkipped ==
    \A p \in lpkg_files :
        orig[p].state # "ok" =>
            /\ temp_deps[p] = NoFile
            /\ ~extract[p].deps.exists
            /\ repacked[p] = NoArchive
            /\ target_dir[p] = orig[p]
            /\ main_pc # "done"

----------------------------------------------------------------------------
(* C10 *)

\* C10 as stated: at every point the archive path of a package holds the original
\* archive or a completely written new one.
C10_ArchiveNeverPartial ==
    \A p \in lpkg_files : target_dir[p] = orig[p] \/ target_dir[p].state = "ok"

----------------------------------------------------------------------------
(* C11 *)

\* main is in Phase 2: the process_phase2 calls exist and the cleanup has not run
Phase2On == main_pc \in {"phase2", "unwind2"}

\* C11 as stated: at every point of Phase 2 the deps.txt of a package's extract
\* directory is, whole, what the archive brought or what process_phase2 computed.
C11_DepsNeverMissing ==
    Phase2On =>
        \A p \in lpkg_files :
            \/ extract[p].deps = Extracted(orig[p]).deps
            \/ extract[p].deps = File(final_deps[p])

----------------------------------------------------------------------------
(* C12 *)

\* C12 as stated: an archive the run has replaced is a whole archive that holds
\* the content/ tree the original held.
C12_ContentKept ==
    \A p \in lpkg_files :
        target_dir[p] # orig[p] =>
            /\ target_dir[p].state = "ok"
            /\ target_dir[p].content = orig[p].content
            /\ target_dir[p].tree = orig[p].tree

----------------------------------------------------------------------------
(* C13 *)

\* C13 as stated: when main has ended after mkdtemp, by its last statement or by
\* an exception, the working directory, every extract directory under it and
\* every temporary dependency file are gone.
C13_ScratchRemoved ==
    main_pc \in {"done", "raised"} =>
        /\ ~working_dir
        /\ \A p \in lpkg_files : ~extract[p].exists /\ ~temp_deps[p].exists

----------------------------------------------------------------------------
(* C14 *)

\* path x is path y, or lies under it
Under(x, y) == Len(y) <= Len(x) /\ SubSeq(x, 1, Len(y)) = y

Overlap(x, y) == Under(x, y) \/ Under(y, x)

\* C14: two different calls of one phase that are running at the same time touch
\* no common path, nor a path that lies under a path of the other.
C14_PathsExclusive ==
    \A p \in lpkg_files : \A q \in lpkg_files \ {p} :
        /\ (fut1[p] = "running" /\ fut1[q] = "running") =>
               \A x \in Paths1(p) : \A y \in Paths1(q) : ~Overlap(x, y)
        /\ (fut2[p] \in InPhase2 /\ fut2[q] \in InPhase2) =>
               \A x \in Paths2(p) : \A y \in Paths2(q) : ~Overlap(x, y)

\* two archives of one package name are in process_phase2 at the same time
C14_Witness ==
    \E p \in lpkg_files : \E q \in lpkg_files \ {p} :
        /\ pkg_name_of[p] = pkg_name_of[q]
        /\ fut2[p] = "removed"
        /\ fut2[q] = "tarred"

----------------------------------------------------------------------------
(* C15 *)

\* the NEEDED entries of the ELF objects the archive of p brought
NeededBy(p) ==
    IF orig[p].state = "ok"
    THEN UNION {Range(o.needed) : o \in {f \in Tree[orig[p].tree] : f.elf}}
    ELSE {}

\* the recorded providers of the NEEDED entries of p, its own name left out
FreshSet(p) ==
    {provider_map[n] : n \in NeededBy(p) \cap DOMAIN provider_map} \ {pkg_name_of[p]}

\* ascending with no name twice
StrictlySorted(l) == \A i \in 1..(Len(l) - 1) : StrLess(l[i], l[i + 1])

\* C15: once process_phase2 has completed for p, final_deps lists exactly the
\* recorded providers of p's NEEDED entries other than p itself, ascending with no
\* name twice, and deps.txt, in the extract directory and in a wholly written new
\* archive, holds those lines and nothing else, whatever it held before.
C15_DepsRegenerated ==
    \A p \in lpkg_files :
        fut2[p] = "finished" =>
            /\ Range(final_deps[p]) = FreshSet(p)
            /\ StrictlySorted(final_deps[p])
            /\ working_dir => extract[p].deps = File(final_deps[p])
            /\ target_dir[p].state = "ok" => target_dir[p].deps = File(final_deps[p])

\* a package whose archive brought a deps.txt of one line now has two dependencies
C15_Witness ==
    \E p \in lpkg_files :
        /\ fut2[p] = "finished"
        /\ orig[p].deps = OldDeps
        /\ Len(final_deps[p]) = 2
        /\ working_dir
        /\ target_dir[p].state = "ok"
        /\ target_dir[p].deps = File(final_deps[p])

----------------------------------------------------------------------------
(* C16 *)

\* C16: every name of the dependency list computed for p is the recorded provider
\* of a NEEDED entry of an ELF object of p, and a package with a NEEDED entry the
\* index does not know, and no other fault, does not end with an exception.
C16_OnlyRecordedProviders ==
    \A p \in lpkg_files :
        /\ Scanned2(p) =>
               \A d \in Range(final_deps[p]) :
                   \E n \in NeededBy(p) \cap DOMAIN provider_map : provider_map[n] = d
        /\ (NeededBy(p) \ DOMAIN provider_map # {} /\ ~Faulty(orig[p])) =>
               fut2[p] # "raised"

\* a package with one NEEDED entry the index knows and one it does not know has
\* been repacked with one dependency
C16_Witness ==
    \E p \in lpkg_files :
        /\ fut2[p] = "finished"
        /\ NeededBy(p) \ DOMAIN provider_map # {}
        /\ Len(final_deps[p]) = 1
        /\ target_dir[p].deps = File(final_deps[p])

----------------------------------------------------------------------------
(* C17 *)

\* C17 as stated: the new archive of every package process_phase2 has completed
\* has a deps.txt and a provides.txt at its root.
C17_BothFilesPresent ==
    \A p \in lpkg_files :
        (fut2[p] = "finished" /\ target_dir[p].state = "ok") =>
            /\ target_dir[p].deps.exists
            /\ target_dir[p].provides

----------------------------------------------------------------------------
(* C18 *)

\* the archive of p is readable and none of the files of its content/ is ELF
NoElf(p) == orig[p].state = "ok" /\ \A o \in Tree[orig[p].tree] : ~o.elf

\* C18: for a package without ELF objects process_phase2 does not end with an
\* exception, the dependency list it computes is empty, and the temporary file,
\* deps.txt and the deps.txt of a wholly written new archive are empty files.
C18_NoElfNoDeps ==
    \A p \in lpkg_files :
        NoElf(p) =>
            /\ fut2[p] # "raised"
            /\ Scanned2(p) => final_deps[p] = <<>>
            /\ (Scanned2(p) /\ working_dir) => temp_deps[p] = File(<<>>)
            /\ (fut2[p] \in {"copied", "tarred", "finished"} /\ working_dir) =>
                   extract[p].deps = File(<<>>)
            /\ (fut2[p] = "finished" /\ target_dir[p].state = "ok") =>
                   target_dir[p].deps = File(<<>>)

\* a package without ELF objects has been repacked with an empty deps.txt in a
\* run whose index knows a library of another package, on which a third depends
C18_Witness ==
    \E p \in lpkg_files : \E q \in lpkg_files \ {p} :
        /\ NoElf(p)
        /\ fut2[p] = "finished"
        /\ orig[p].deps = OldDeps
        /\ target_dir[p].deps = File(<<>>)
        /\ \E k \in DOMAIN provider_map : provider_map[k] # pkg_name_of[p]
        /\ fut2[q] = "finished"
        /\ final_deps[q] # <<>>

----------------------------------------------------------------------------
(* C19 *)

\* process_phase1 has run for p, once: its one future is over
UnpackedOnce(p) == fut1[p] \in {"finished", "raised"}

\* process_phase2 has run for p to its end, once: its one future has returned
RepackedOnce(p) == fut2[p] = "finished"

\* C19 as stated, read in favour of the code: a run over a directory with archives
\* comes to an end, and when it has ended every archive has been unpacked once
\* and every archive that did not fail itself has been repacked once.
C19_EndsWithEachProcessedOnce ==
    (is_dir /\ lpkg_files # {}) =>
        <>(Ended /\ \A p \in lpkg_files :
                       /\ UnpackedOnce(p)
                       /\ ~OwnFailure(p) => RepackedOnce(p))

----------------------------------------------------------------------------
(* C20 *)

\* the identifiers some package of the run registers, by a SONAME of an ELF object
\* or by the name of an ELF object that has ".so" in it
Registered == {s \in Identifiers : Registrants(s) # {}}

\* C20: once Phase 1 is over and the process_phase2 calls exist, the keys of
\* provider_map are the identifiers the packages of the run register, no more and
\* no fewer, and every key maps to the name of a package that registers it.
C20_IndexIsWhatIsRegistered ==
    (\E p \in lpkg_files : fut2[p] # "none") =>
        /\ DOMAIN provider_map = Registered
        /\ \A k \in DOMAIN provider_map : provider_map[k] \in Names(Registrants(k))

\* Phase 2 is on with an index that holds a SONAME two package names register, the
\* file name of a library that declares another SONAME, and no key for a file
\* named with ".so" that is not ELF
C20_Witness ==
    /\ \E p \in lpkg_files : fut2[p] # "none"
    /\ LibX \in DOMAIN provider_map
    /\ Cardinality(Names(Registrants(LibX))) = 2
    /\ LibObj.fname \in DOMAIN provider_map
    /\ \E p \in Readable : TextObj \in Tree[orig[p].tree]
    /\ TextObj.fname \notin DOMAIN provider_map

----------------------------------------------------------------------------
(* C21 *)

\* the file name without its final ".lpkg"
Stem(f) == SubSeq(f, 1, Len(f) - Len(DotLpkg))

\* what precedes the last hyphen of the stem; the whole stem where it has none
StemName(f) ==
    IF Contains(Stem(f), <<Hyphen>>) THEN BeforeLast(Stem(f), Hyphen) ELSE Stem(f)

\* C21 as stated: the package name process_phase1 returns with its pairs, which
\* is the name process_phase2 leaves out of the dependencies, is what precedes the
\* last hyphen of the file name's stem, and is the name parse_pkg_filename
\* returns for the file name where it returns one.
C21_NameIsStemBeforeLastHyphen ==
    \A p \in lpkg_files : \A pr \in result1[p] :
        /\ pr[2] = pkg_name_of[p]
        /\ pr[2] = StemName(p)
        /\ parse_pkg_filename(p).ok => pr[2] = parse_pkg_filename(p).name

----------------------------------------------------------------------------
(* C22 *)

\* the entries of the remote index.txt
Entries == parse_aggregated_index(index_txt.lines)

\* the lines of the deps.txt of a local archive, joined by commas
CommaJoinedDeps(f) ==
    IF LocalFiles[f].deps.exists THEN JoinWith(LocalFiles[f].deps.lines, Comma) ELSE <<>>

\* the last file of its package name that the last push went through
LastOfName(i) ==
    /\ ~Skipped(last_files[i])
    /\ \A j \in (i + 1)..Len(last_files) :
           Skipped(last_files[j])
           \/ parse_pkg_filename(last_files[j]).name # parse_pkg_filename(last_files[i]).name

\* C22 as stated: after a push, the index entry of the name of every archive pushed
\* has as deps the comma-joined lines of the deps.txt of that archive, whatever
\* the index held before.
C22_IndexDepsAreArchiveDeps ==
    last_op = "push" =>
        \A i \in 1..Len(last_files) :
            LastOfName(i) =>
                LET name == parse_pkg_filename(last_files[i]).name
                IN /\ Find(Entries, name) # 0
                   /\ Entries[Find(Entries, name)].deps = CommaJoinedDeps(last_files[i])

----------------------------------------------------------------------------
(* C23 *)

\* the (name, version) pairs the index lists
Listed ==
    UNION { { <<Entries[i].name, Entries[i].versions[k][1]>> :
                k \in 1..Len(Entries[i].versions) } : i \in 1..Len(Entries) }

\* C23 as stated: after cleanup_repository, every listed version has its remote
\* file, and every remote .lpkg file is that of a listed version.
C23_CleanupKeepsListedOnly ==
    last_op = "cleanup" =>
        /\ \A nv \in Listed : RemotePkg(nv[1], nv[2]) \in remote
        /\ \A r \in remote :
               EndsWith(r[2], DotLpkg) => <<r[1], BeforeLast(r[2], ".")>> \in Listed

====
